---- MODULE Spec2Model ----
(***************************************************************************)
(* Model of the tool compiler / dispatcher of HomeAutomator (src/Tools.py) *)
(* over the Moonraker client objects (src/moonraker).                      *)
(*                                                                         *)
(* Python strings are TLA+ strings; TLC evaluates Len, SubSeq and \o on    *)
(* them, so startswith, slicing and concatenation are computed character   *)
(* by character as the interpreter does.                                   *)
(***************************************************************************)
EXTENDS Integers, Sequences, FiniteSets, TLC

VARIABLES
    tree,       \* the methods of printer, server and server.files
    extra,      \* the methods of namespace objects attached elsewhere
    tools,      \* what the last get_tools call returned
    resolved,   \* the last getFunc call: the name asked for and how it ended
    http,       \* the HTTP requests issued so far
    call,       \* a get_tools call in progress: its position and its list
    client,     \* the URL a request object was constructed with and stores
    result      \* the last wrapper call: its response and how it ended

vars == <<tree, extra, tools, resolved, http, call, client, result>>

\* the state outside Tools.py, which Tools.py never touches
others == <<call, client, result>>

(***************************************************************************)
(* Bounds                                                                  *)
(***************************************************************************)
\* largest number of changes the owner makes to the tree during one call
MaxMutations == 2

\* largest number of methods (over the three objects together) of a tree
MaxMethods == 3

(***************************************************************************)
(* Python values                                                           *)
(***************************************************************************)
None == [tag |-> "None"]

\* inspect.Parameter.empty is the class inspect._empty
Empty == [tag |-> "class", name |-> "_empty"]

\* the builtin classes used as annotations
StrType == [tag |-> "class", name |-> "str"]
IntType == [tag |-> "class", name |-> "int"]
BoolType == [tag |-> "class", name |-> "bool"]

\* typing.List[str]: a generic alias, whose __name__ is that of its origin
ListOfStr == [tag |-> "alias", name |-> "List"]

\* a parameter of a signature, as inspect.Parameter shows it
Param(n, a, hasDefault) ==
    [name |-> n, annotation |-> a,
     default |-> IF hasDefault THEN [tag |-> "value"] ELSE Empty]

\* a docstring: __doc__ is None or a string
NoDoc == [isNone |-> TRUE, text |-> ""]
Doc(s) == [isNone |-> FALSE, text |-> s]

(***************************************************************************)
(* The namespace objects                                                   *)
(***************************************************************************)
\* Moonraker.printer, Moonraker.server and ServerRequests.files
Nodes == {"printer", "server", "server.files"}

\* the methods a namespace object may carry: name, __doc__ and the
\* signature of the bound method (the receiver is not part of it)
MethodPool ==
    { [name |-> "__init__",
       doc |-> Doc("Initialize with a URL."),
       params |-> <<Param("url", StrType, FALSE)>>],
      [name |-> "run_gcode",
       doc |-> NoDoc,
       params |-> <<Param("gcode", Empty, FALSE)>>],
      [name |-> "files_get_roots",
       doc |-> Doc(""),
       params |-> <<Param("count", IntType, TRUE)>>],
      [name |-> "create_zip",
       doc |-> Doc("Create a zip.\n\n            Args:\n                dest (str)"),
       params |-> <<Param("dest", StrType, FALSE),
                    Param("files", ListOfStr, FALSE),
                    Param("store_only", BoolType, TRUE)>>],
      [name |-> "get_roots",
       doc |-> Doc("Get roots."),
       params |-> <<>>],
      [name |-> "restart",
       doc |-> Doc("            "),
       params |-> <<>>] }

MethodNames == { m.name : m \in MethodPool }

MethodDef(n) == CHOOSE m \in MethodPool : m.name = n

\* the number of methods of a tree
RECURSIVE SumCard(_, _)
SumCard(t, ns) ==
    IF ns = {} THEN 0
    ELSE LET n == CHOOSE x \in ns : TRUE
         IN  Cardinality(t[n]) + SumCard(t, ns \ {n})

\* a tree gives each namespace object its set of method names
Trees == { t \in [Nodes -> SUBSET MethodNames] : SumCard(t, Nodes) <= MaxMethods }

\* namespace objects a Moonraker object may carry besides the three: a
\* sibling of printer and server, and a child of the files object
ExtraNodes == {"machine", "server.files.thumbnails"}

\* Moonraker(url) attaches none of them
NoExtra == [n \in ExtraNodes |-> {}]

\* the methods such objects may carry
ExtraTrees ==
    { e \in [ExtraNodes -> SUBSET MethodNames] :
        SumCard(e, ExtraNodes) <= MaxMethods }

(***************************************************************************)
(* String operations of the interpreter                                    *)
(***************************************************************************)
\* str.startswith
startswith(s, p) == Len(s) >= Len(p) /\ SubSeq(s, 1, Len(p)) = p

\* str.endswith
endswith(s, p) ==
    Len(s) >= Len(p) /\ SubSeq(s, Len(s) - Len(p) + 1, Len(s)) = p

\* the slice s[n:]
SliceFrom(s, n) == SubSeq(s, n + 1, Len(s))

\* str.replace(old, new): non-overlapping occurrences, left to right
RECURSIVE replace(_, _, _)
replace(s, old, new) ==
    IF Len(s) = 0 THEN s
    ELSE IF startswith(s, old)
         THEN new \o replace(SliceFrom(s, Len(old)), old, new)
         ELSE SubSeq(s, 1, 1) \o replace(SliceFrom(s, 1), old, new)

\* the characters of the names, in code point order
CodePoints == ".0123456789ABCDEFGHIJKLMNOPQRSTUVWXYZ_abcdefghijklmnopqrstuvwxyz"

ord(c) == CHOOSE i \in 1..Len(CodePoints) : SubSeq(CodePoints, i, i) = c

\* a < b on str: lexicographic by code point
RECURSIVE StrLess(_, _)
StrLess(a, b) ==
    IF Len(b) = 0 THEN FALSE
    ELSE IF Len(a) = 0 THEN TRUE
    ELSE LET ca == ord(SubSeq(a, 1, 1))
             cb == ord(SubSeq(b, 1, 1))
         IN  IF ca # cb THEN ca < cb
             ELSE StrLess(SliceFrom(a, 1), SliceFrom(b, 1))

\* sorted(): the names of a set in ascending order
RECURSIVE sorted(_)
sorted(S) ==
    IF S = {} THEN <<>>
    ELSE LET least == CHOOSE x \in S : \A y \in S \ {x} : StrLess(x, y)
         IN  <<least>> \o sorted(S \ {least})

(***************************************************************************)
(* Attribute access on the namespace objects                               *)
(***************************************************************************)
\* the bound method `name` of object obj (self is its __self__)
BoundMethod(obj, name) == [tag |-> "method", self |-> obj, name |-> name]

\* the attributes of obj that are not methods: the url string every
\* constructor stores, the files object of the server, the object's class
DataAttrs(obj) ==
    {"url", "__class__"} \cup (IF obj = "server" THEN {"files"} ELSE {})

\* the value of such an attribute, read from obj
DataValue(obj, name) ==
    [tag |-> IF name = "url" THEN "str"
             ELSE IF name = "files" THEN "object"
             ELSE "class",
     self |-> obj, name |-> name]

\* dir(obj)
dir(t, obj) == t[obj] \cup DataAttrs(obj)

hasattr(t, obj, name) == name \in dir(t, obj)

\* getattr(obj, name) once hasattr holds
getattr(t, obj, name) ==
    IF name \in t[obj] THEN BoundMethod(obj, name) ELSE DataValue(obj, name)

ismethod(v) == v.tag = "method"

\* variant: the members come in descending order of name
getmembers_descending(t, obj) ==
    LET names == { n \in dir(t, obj) : ismethod(getattr(t, obj, n)) }
        order == sorted(names)
    IN  [i \in 1..Len(order) |->
            <<order[Len(order) + 1 - i],
              getattr(t, obj, order[Len(order) + 1 - i])>>]

\* inspect.getmembers(obj, predicate): the (name, value) pairs of dir(obj)
\* that satisfy the predicate, sorted by name
getmembers(t, obj) ==
    LET names == { n \in dir(t, obj) : ismethod(getattr(t, obj, n)) }
        order == sorted(names)
    IN  [i \in 1..Len(order) |-> <<order[i], getattr(t, obj, order[i])>>]

\* func.__doc__ and inspect.signature(func).parameters of a bound method
DocOf(func) == MethodDef(func.name).doc
signature(func) == MethodDef(func.name).params

(***************************************************************************)
(* MoonrakerTools._add_class_methods                                       *)
(***************************************************************************)
\* variant: no member is skipped
isPrivate_never(name) == FALSE

\* name.startswith("_")
isPrivate(name) == startswith(name, "_")

\* variant: the docstring is appended as it is
docstringOf_verbatim(func) ==
    LET d == DocOf(func)
    IN  IF d.isNone \/ d.text = "" THEN "No description available." ELSE d.text

\* func.__doc__ or "No description available.", then the replace()
docstringOf(func) ==
    LET d == DocOf(func)
        docstring == IF d.isNone \/ d.text = "" THEN "No description available."
                     ELSE d.text
    IN  replace(docstring, "            ", "")

\* getattr(param.annotation, '__name__', 'string')
param_type(param) ==
    IF "name" \in DOMAIN param.annotation THEN param.annotation.name ELSE "string"

\* variant: the test reads the annotation instead of the default
isRequired_annotation(param) == param.annotation = Empty

\* param.default == inspect.Parameter.empty
isRequired(param) == param.default = Empty

\* the loop over parameters.items(): properties and required after the
\* parameters from position i on
RECURSIVE paramLoop(_, _, _, _)
paramLoop(parameters, i, properties, required) ==
    IF i > Len(parameters) THEN [properties |-> properties, required |-> required]
    ELSE LET param == parameters[i]
             param_name == param.name
         IN  IF param_name = "self"
             THEN paramLoop(parameters, i + 1, properties, required)
             ELSE paramLoop(parameters, i + 1,
                     (param_name :> [type |-> param_type(param),
                                     description |-> "Parameter " \o param_name])
                        @@ properties,
                     IF isRequired(param) THEN Append(required, param_name)
                     ELSE required)

\* variant: the schema is left open and not strict
descriptor_open(prefix, name, func) ==
    LET schema == paramLoop(signature(func), 1, <<>>, <<>>)
    IN  [type |-> "function",
         function |->
            [name |-> prefix \o name,
             description |-> docstringOf(func),
             parameters |->
                [type |-> "object",
                 properties |-> schema.properties,
                 required |-> schema.required,
                 additionalProperties |-> TRUE],
             strict |-> FALSE]]

\* the dict appended for one method
descriptor(prefix, name, func) ==
    LET schema == paramLoop(signature(func), 1, <<>>, <<>>)
    IN  [type |-> "function",
         function |->
            [name |-> prefix \o name,
             description |-> docstringOf(func),
             parameters |->
                [type |-> "object",
                 properties |-> schema.properties,
                 required |-> schema.required,
                 additionalProperties |-> FALSE],
             strict |-> TRUE]]

\* the loop over the members from position i on
RECURSIVE memberLoop(_, _, _, _)
memberLoop(members, i, toolsList, prefix) ==
    IF i > Len(members) THEN toolsList
    ELSE LET name == members[i][1]
             func == members[i][2]
         IN  IF isPrivate(name)
             THEN memberLoop(members, i + 1, toolsList, prefix)
             ELSE memberLoop(members, i + 1,
                             Append(toolsList, descriptor(prefix, name, func)),
                             prefix)

\* _add_class_methods(obj, tools, prefix): the list after the call
add_class_methods(t, obj, toolsList, prefix) ==
    memberLoop(getmembers(t, obj), 1, toolsList, prefix)

(***************************************************************************)
(* MoonrakerTools.get_tools                                                *)
(***************************************************************************)
\* variant: the files object is flattened with "_" instead of "."
get_tools_underscore(t) ==
    LET tools0 == <<>>
        tools1 == add_class_methods(t, "printer", tools0, "printer_")
        tools2 == add_class_methods(t, "server", tools1, "server_")
        tools3 == add_class_methods(t, "server.files", tools2, "server_files_")
    IN  tools3

\* variant: the files object is not compiled
get_tools_noFiles(t) ==
    LET tools0 == <<>>
        tools1 == add_class_methods(t, "printer", tools0, "printer_")
        tools2 == add_class_methods(t, "server", tools1, "server_")
    IN  tools2

get_tools(t) ==
    LET tools0 == <<>>
        tools1 == add_class_methods(t, "printer", tools0, "printer_")
        tools2 == add_class_methods(t, "server", tools1, "server_")
        tools3 == add_class_methods(t, "server.files", tools2, "server.files_")
    IN  tools3

(***************************************************************************)
(* MoonrakerTools.getFunc                                                  *)
(***************************************************************************)
\* how a call ends: it returns a value or raises
Return(v) == [kind |-> "return", value |-> v]
Raise(e, obj) == [kind |-> "raise", value |-> [tag |-> e, self |-> obj]]

\* getattr(obj, name) as an expression of the caller
getattrCall(t, obj, name) ==
    IF hasattr(t, obj, name) THEN Return(getattr(t, obj, name))
    ELSE Raise("AttributeError", obj)

\* variant: the files branch strips the length of the server prefix
getFuncBranch_shortStrip(func) ==
    IF startswith(func, "printer_")
    THEN [obj |-> "printer", attr |-> SliceFrom(func, Len("printer_"))]
    ELSE IF startswith(func, "server_")
    THEN [obj |-> "server", attr |-> SliceFrom(func, Len("server_"))]
    ELSE IF startswith(func, "server.files_")
    THEN [obj |-> "server.files", attr |-> SliceFrom(func, Len("server_"))]
    ELSE [obj |-> "none", attr |-> ""]

\* variant: the server branch tests the segment without its separator
getFuncBranch_loose(func) ==
    IF startswith(func, "printer_")
    THEN [obj |-> "printer", attr |-> SliceFrom(func, Len("printer_"))]
    ELSE IF startswith(func, "server")
    THEN [obj |-> "server", attr |-> SliceFrom(func, Len("server_"))]
    ELSE IF startswith(func, "server.files_")
    THEN [obj |-> "server.files", attr |-> SliceFrom(func, Len("server.files_"))]
    ELSE [obj |-> "none", attr |-> ""]

\* the branch of the if/elif chain that func takes: the object it reads
\* and the attribute name func[len(prefix):]; no branch when none matches
getFuncBranch(func) ==
    IF startswith(func, "printer_")
    THEN [obj |-> "printer", attr |-> SliceFrom(func, Len("printer_"))]
    ELSE IF startswith(func, "server_")
    THEN [obj |-> "server", attr |-> SliceFrom(func, Len("server_"))]
    ELSE IF startswith(func, "server.files_")
    THEN [obj |-> "server.files", attr |-> SliceFrom(func, Len("server.files_"))]
    ELSE [obj |-> "none", attr |-> ""]

\* the function falls off its end, and returns None, when no branch is taken
getFunc(t, tool) ==
    LET func == tool.function.name
        branch == getFuncBranch(func)
    IN  IF branch.obj = "none" THEN Return(None)
        ELSE getattrCall(t, branch.obj, branch.attr)

(***************************************************************************)
(* The calls                                                               *)
(***************************************************************************)
\* the prefix get_tools gives each object
Prefix(obj) == obj \o "_"

\* tool names a caller asks getFunc for, besides those of a catalog
RequestNames ==
    { Prefix(obj) \o n : obj \in Nodes,
                         n \in {"__init__", "get_roots", "files_get_roots"} }
      \cup { "nonexistent_tool", "printer_", "server_url", "server_files",
             "serverinfo" }

ToolNamed(n) == [function |-> [name |-> n]]

NotCalled == [kind |-> "notcalled", value |-> None]

\* no get_tools call in progress, no request object, no wrapper call
NoCall == [pc |-> "idle", tools |-> <<>>, seen |-> {}, mutations |-> 0]
NoClient == [class |-> "none", url |-> "", stored |-> None]
NoResponse == [kind |-> "none", body |-> ""]
NoResult ==
    [method |-> "none", file |-> "none", response |-> NoResponse,
     requests |-> <<>>, outcome |-> NotCalled]

Init ==
    /\ tree \in Trees
    /\ extra = NoExtra
    /\ tools = [returned |-> FALSE, value |-> <<>>]
    /\ resolved = [name |-> "", outcome |-> NotCalled]
    /\ http = <<>>
    /\ call = NoCall
    /\ client = NoClient
    /\ result = NoResult

\* a call of get_tools()
GetTools ==
    /\ tools' = [returned |-> TRUE, value |-> get_tools(tree)]
    /\ UNCHANGED <<tree, extra, resolved, http, others>>

\* variant: getFunc calls the method it resolved, which issues a request
GetFuncOfCatalog_invoking ==
    /\ tools.returned
    /\ \E i \in 1..Len(tools.value) :
          /\ resolved' = [name |-> tools.value[i].function.name,
                          outcome |-> getFunc(tree, tools.value[i])]
          /\ http' = Append(http, [method |-> "GET",
                                   url |-> tools.value[i].function.name])
    /\ UNCHANGED <<tree, extra, tools, others>>

\* a call of getFunc(tool) for a descriptor of the catalog
GetFuncOfCatalog ==
    /\ tools.returned
    /\ \E i \in 1..Len(tools.value) :
          resolved' = [name |-> tools.value[i].function.name,
                       outcome |-> getFunc(tree, tools.value[i])]
    /\ UNCHANGED <<tree, extra, tools, http, others>>

\* a call of getFunc(tool) for a tool dict the caller wrote
GetFuncOfRequest ==
    /\ \E n \in RequestNames :
          resolved' = [name |-> n, outcome |-> getFunc(tree, ToolNamed(n))]
    /\ UNCHANGED <<tree, extra, tools, http, others>>

Next == GetTools \/ GetFuncOfCatalog \/ GetFuncOfRequest

Spec == Init /\ [][Next]_vars

(***************************************************************************)
(* get_tools on a Moonraker object that carries further namespace objects  *)
(***************************************************************************)
InitNested ==
    /\ tree \in Trees
    /\ extra \in { e \in ExtraTrees :
                     SumCard(tree, Nodes) + SumCard(e, ExtraNodes) <= MaxMethods }
    /\ tools = [returned |-> FALSE, value |-> <<>>]
    /\ resolved = [name |-> "", outcome |-> NotCalled]
    /\ http = <<>>
    /\ call = NoCall
    /\ client = NoClient
    /\ result = NoResult

NextNested == GetTools

SpecNested == InitNested /\ [][NextNested]_vars

(***************************************************************************)
(* get_tools while the owner of the Moonraker object changes it: the call  *)
(* reads one namespace object after the other, and nothing in it copies    *)
(* the tree or holds a lock                                                *)
(***************************************************************************)
\* the methods the owner adds and removes
MutNames == {"get_roots", "run_gcode"}

MutTrees == { t \in Trees : \A obj \in Nodes : t[obj] \subseteq MutNames }

InitConcurrent ==
    /\ tree \in MutTrees
    /\ extra = NoExtra
    /\ tools = [returned |-> FALSE, value |-> <<>>]
    /\ resolved = [name |-> "", outcome |-> NotCalled]
    /\ http = <<>>
    /\ call = NoCall
    /\ client = NoClient
    /\ result = NoResult

\* get_tools is entered: tools = []
EnterGetTools ==
    /\ call.pc = "idle"
    /\ call' = [call EXCEPT !.pc = "printer", !.tools = <<>>, !.seen = {tree}]
    /\ UNCHANGED <<tree, extra, tools, resolved, http, client, result>>

\* the list after _add_class_methods on the tree as it is now
Added(obj) ==
    [call EXCEPT !.tools = add_class_methods(tree, obj, @, Prefix(obj))]

\* self._add_class_methods(self.moonraker.printer, tools, "printer_")
AddPrinterMethods ==
    /\ call.pc = "printer"
    /\ call' = [Added("printer") EXCEPT !.pc = "server"]
    /\ UNCHANGED <<tree, extra, tools, resolved, http, client, result>>

\* self._add_class_methods(self.moonraker.server, tools, "server_")
AddServerMethods ==
    /\ call.pc = "server"
    /\ call' = [Added("server") EXCEPT !.pc = "server.files"]
    /\ UNCHANGED <<tree, extra, tools, resolved, http, client, result>>

\* self._add_class_methods(self.moonraker.server.files, tools, ...)
AddFilesMethods ==
    /\ call.pc = "server.files"
    /\ call' = [Added("server.files") EXCEPT !.pc = "return"]
    /\ UNCHANGED <<tree, extra, tools, resolved, http, client, result>>

\* return tools
ReturnTools ==
    /\ call.pc = "return"
    /\ tools' = [returned |-> TRUE, value |-> call.tools]
    /\ call' = [call EXCEPT !.pc = "done"]
    /\ UNCHANGED <<tree, extra, resolved, http, client, result>>

\* the owner may change the tree while the call runs
Running ==
    /\ call.pc \in {"printer", "server", "server.files", "return"}
    /\ call.mutations < MaxMutations

\* the call, once the tree has become t
Changed(t) == [call EXCEPT !.seen = @ \cup {t}, !.mutations = @ + 1]

\* the owner adds a method to a namespace object
OwnerAdds ==
    /\ Running
    /\ \E obj \in Nodes : \E n \in MutNames \ tree[obj] :
          /\ [tree EXCEPT ![obj] = @ \cup {n}] \in MutTrees
          /\ tree' = [tree EXCEPT ![obj] = @ \cup {n}]
    /\ call' = Changed(tree')
    /\ UNCHANGED <<extra, tools, resolved, http, client, result>>

\* the owner removes a method from a namespace object
OwnerRemoves ==
    /\ Running
    /\ \E obj \in Nodes : \E n \in tree[obj] :
          tree' = [tree EXCEPT ![obj] = @ \ {n}]
    /\ call' = Changed(tree')
    /\ UNCHANGED <<extra, tools, resolved, http, client, result>>

\* the owner replaces a namespace object by another one
OwnerReplaces ==
    /\ Running
    /\ \E obj \in Nodes : \E ms \in SUBSET MutNames :
          /\ ms # tree[obj]
          /\ [tree EXCEPT ![obj] = ms] \in MutTrees
          /\ tree' = [tree EXCEPT ![obj] = ms]
    /\ call' = Changed(tree')
    /\ UNCHANGED <<extra, tools, resolved, http, client, result>>

NextConcurrent ==
    \/ EnterGetTools
    \/ AddPrinterMethods
    \/ AddServerMethods
    \/ AddFilesMethods
    \/ ReturnTools
    \/ OwnerAdds
    \/ OwnerRemoves
    \/ OwnerReplaces

SpecConcurrent == InitConcurrent /\ [][NextConcurrent]_vars

(***************************************************************************)
(* Two get_tools calls on one MoonrakerTools whose tree nobody changes:    *)
(* each call has its own frame, and its list is the one it created         *)
(***************************************************************************)
Callers == {"a", "b"}

\* variant: the list is one object kept between the calls
NewList_shared(c) == "a"

\* tools = []: a new list object, named here after the call that made it
NewList(c) == c

InitTwoCalls ==
    /\ tree \in Trees
    /\ extra = NoExtra
    /\ tools = [c \in Callers |-> [returned |-> FALSE, ref |-> ""]]
    /\ resolved = [name |-> "", outcome |-> NotCalled]
    /\ http = <<>>
    /\ call = [pc |-> [c \in Callers |-> "idle"],
               ref |-> [c \in Callers |-> ""],
               heap |-> [l \in Callers |-> <<>>],
               overlapped |-> FALSE]
    /\ client = NoClient
    /\ result = NoResult

\* a call is between its entry and its return
InCall(c) == call.pc[c] \in {"printer", "server", "server.files", "return"}

\* a call enters get_tools and creates its list
TwoEnter ==
    \E c \in Callers :
        /\ call.pc[c] = "idle"
        /\ call' = [call EXCEPT
                        !.pc[c] = "printer",
                        !.ref[c] = NewList(c),
                        !.heap[NewList(c)] = <<>>,
                        !.overlapped = @ \/ \E d \in Callers \ {c} : InCall(d)]
        /\ UNCHANGED <<tree, extra, tools, resolved, http, client, result>>

\* the heap after _add_class_methods(obj, tools, prefix) in the frame of c
Appended(c, obj) ==
    [call.heap EXCEPT ![call.ref[c]] =
        add_class_methods(tree, obj, @, Prefix(obj))]

TwoAddPrinter ==
    \E c \in Callers :
        /\ call.pc[c] = "printer"
        /\ call' = [call EXCEPT !.pc[c] = "server",
                                !.heap = Appended(c, "printer")]
        /\ UNCHANGED <<tree, extra, tools, resolved, http, client, result>>

TwoAddServer ==
    \E c \in Callers :
        /\ call.pc[c] = "server"
        /\ call' = [call EXCEPT !.pc[c] = "server.files",
                                !.heap = Appended(c, "server")]
        /\ UNCHANGED <<tree, extra, tools, resolved, http, client, result>>

TwoAddFiles ==
    \E c \in Callers :
        /\ call.pc[c] = "server.files"
        /\ call' = [call EXCEPT !.pc[c] = "return",
                                !.heap = Appended(c, "server.files")]
        /\ UNCHANGED <<tree, extra, tools, resolved, http, client, result>>

\* return tools: the caller gets the list object
TwoReturn ==
    \E c \in Callers :
        /\ call.pc[c] = "return"
        /\ tools' = [tools EXCEPT ![c] = [returned |-> TRUE,
                                          ref |-> call.ref[c]]]
        /\ call' = [call EXCEPT !.pc[c] = "done"]
        /\ UNCHANGED <<tree, extra, resolved, http, client, result>>

NextTwoCalls ==
    \/ TwoEnter
    \/ TwoAddPrinter
    \/ TwoAddServer
    \/ TwoAddFiles
    \/ TwoReturn

SpecTwoCalls == InitTwoCalls /\ [][NextTwoCalls]_vars

(***************************************************************************)
(* The request objects of src/moonraker: construction and the wrappers     *)
(* that return the parsed JSON body                                        *)
(***************************************************************************)
\* largest number of HTTP requests issued in a behaviour
MaxCalls == 1

\* if url[-1] != "/": url += "/"
withSlash(url) ==
    IF SubSeq(url, Len(url), Len(url)) # "/" THEN url \o "/" ELSE url

\* if not url.startswith("http://") and not url.startswith("https://")
withScheme(url) ==
    IF ~startswith(url, "http://") /\ ~startswith(url, "https://")
    THEN "http://" \o url
    ELSE url

\* if not (url.endswith(seg) or url.endswith(seg + "/")): url += seg + "/"
withSegment(url, seg) ==
    IF ~(endswith(url, seg) \/ endswith(url, seg \o "/"))
    THEN url \o seg \o "/"
    ELSE url

formatted(url, seg) == withSegment(withScheme(withSlash(url)), seg)

\* PrinterRequests(url): url[-1] of the empty string raises IndexError
PrinterRequests(url) ==
    IF url = "" THEN Raise("IndexError", "printer")
    ELSE Return(formatted(url, "printer"))

\* ServerRequests(url): the empty string is rejected
ServerRequests(url) ==
    IF url = "" THEN Raise("ValueError", "server")
    ELSE Return(formatted(url, "server"))

\* the URLs a request object is constructed with
UrlPool ==
    { "", "host", "host:7125/", "http://host", "https://host/",
      "http://host/printer", "http://host/server/", "myprinter", "observer" }

InitWrappers ==
    /\ tree = [obj \in Nodes |-> {}]
    /\ extra = NoExtra
    /\ tools = [returned |-> FALSE, value |-> <<>>]
    /\ resolved = [name |-> "", outcome |-> NotCalled]
    /\ http = <<>>
    /\ call = NoCall
    /\ client = NoClient
    /\ result = NoResult

\* the object and the result of a constructor call
Constructed(class, url, r) ==
    /\ client' = IF r.kind = "return"
                 THEN [class |-> class, url |-> url, stored |-> r.value]
                 ELSE client
    /\ result' = [NoResult EXCEPT !.method = "__init__",
                                  !.outcome = IF r.kind = "return"
                                              THEN Return(None) ELSE r]

NewPrinterRequests ==
    /\ client = NoClient
    /\ result = NoResult
    /\ \E url \in UrlPool : Constructed("printer", url, PrinterRequests(url))
    /\ UNCHANGED <<tree, extra, tools, resolved, http, call>>

NewServerRequests ==
    /\ client = NoClient
    /\ result = NoResult
    /\ \E url \in UrlPool : Constructed("server", url, ServerRequests(url))
    /\ UNCHANGED <<tree, extra, tools, resolved, http, call>>


\* a wrapper: the HTTP verb and what it appends to self.url, around its
\* string argument if it has one
W(class, name, verb, path, arg, tail) ==
    [class |-> class, name |-> name, verb |-> verb, path |-> path,
     arg |-> arg, tail |-> tail]

PrinterWrappers ==
    { W("printer", "info", "GET", "info", FALSE, ""),
      W("printer", "emergencyStop", "POST", "emergency_stop", FALSE, ""),
      W("printer", "hostRestart", "POST", "restart", FALSE, ""),
      W("printer", "firmwareRestart", "POST", "firmware_restart", FALSE, ""),
      W("printer", "listObjects", "GET", "objects/list", FALSE, ""),
      W("printer", "runGCode", "POST", "gcode", FALSE, ""),
      W("printer", "getGCodeHelp", "GET", "gcode/help", FALSE, "") }

ServerWrappers ==
    { W("server", "info", "GET", "info", FALSE, ""),
      W("server", "config", "GET", "config", FALSE, ""),
      W("server", "temperature", "GET",
        "temperature_store?include_monitors=false", FALSE, ""),
      W("server", "cached_gcode", "GET", "gcode_store?count=100", FALSE, "") }

FilesWrappers ==
    { W("server.files", "get_roots", "GET", "/files/roots", FALSE, ""),
      W("server.files", "get_gcodes", "GET", "/files/list?root=gcodes",
        FALSE, ""),
      W("server.files", "get_gcode_metadata", "GET",
        "/files/metadata?filename=", TRUE, ""),
      W("server.files", "scan_gcode_metadata", "POST",
        "/files/metascan?filename=", TRUE, ""),
      W("server.files", "get_gcode_thumbnail", "GET",
        "/server/files/thumbnails?filename=", TRUE, ""),
      W("server.files", "get_directory", "GET", "/files/directory?path=",
        TRUE, "&extended=false"),
      W("server.files", "create_directory", "POST", "/files/directory",
        FALSE, ""),
      W("server.files", "delete_directory", "DELETE",
        "/files/directory?path=", TRUE, "&forced=false"),
      W("server.files", "move_file", "POST", "/files/move", FALSE, ""),
      W("server.files", "copy_file", "POST", "/files/copy", FALSE, ""),
      W("server.files", "create_zip", "POST", "/files/zip", FALSE, ""),
      W("server.files", "file_delete", "DELETE", "/files/delete?file=",
        TRUE, "") }

JsonWrappers == PrinterWrappers \cup ServerWrappers \cup FilesWrappers

\* the wrappers of the object: a ServerRequests carries its _Files, which
\* was given the same URL
WrappersOf(class) ==
    { w \in JsonWrappers : w.class = class
                             \/ (class = "server" /\ w.class = "server.files") }

\* the string arguments of the calls
Paths == {"a.gcode"}

\* what the server does with a request: no connection, an error status
\* with a body, or a success status with a body
Bodies == {"{}", "[]", "ok", ""}

Responses ==
    { [kind |-> "refused", body |-> ""] }
      \cup { [kind |-> k, body |-> b] : k \in {"error_status", "ok"},
                                         b \in Bodies }

\* response.json(): the body parsed, for the bodies that are JSON
IsJson(body) == body \in {"{}", "[]"}

json(body) ==
    IF body = "{}" THEN [tag |-> "dict", items |-> <<>>]
    ELSE [tag |-> "list", items |-> <<>>]

\* variant: no except clause around the request
try_json_uncaught(resp) ==
    IF resp.kind = "refused" THEN {Raise("ConnectionError", "requests")}
    ELSE IF resp.kind = "error_status" THEN {Raise("HTTPError", "requests")}
    ELSE IF IsJson(resp.body) THEN {Return(json(resp.body))}
    ELSE {Return(None), Raise("ValueError", "requests")}

\* try: response = requests.<verb>(...); response.raise_for_status();
\*      return response.json()
\* except requests.exceptions.RequestException: return None
\* The decode error of a body that is not JSON is a RequestException in
\* some versions of requests and a plain ValueError in the others.
try_json(resp) ==
    IF resp.kind = "refused" THEN {Return(None)}
    ELSE IF resp.kind = "error_status" THEN {Return(None)}
    ELSE IF IsJson(resp.body) THEN {Return(json(resp.body))}
    ELSE {Return(None), Raise("ValueError", "requests")}

\* self.files = self._Files(self.url), and _Files.__init__ keeps the URL
\* it is given as it is: self.url = url
FilesUrl == client.stored

\* the request a wrapper issues
RequestOf(w, a) ==
    [method |-> w.verb,
     url |-> client.stored \o w.path \o (IF w.arg THEN a ELSE "") \o w.tail]

\* a call of one of the wrappers of the object
CallJsonWrapper ==
    /\ client.class # "none"
    /\ Len(http) < MaxCalls
    /\ \E w \in WrappersOf(client.class) : \E a \in Paths :
       \E resp \in Responses : \E out \in try_json(resp) :
          /\ result' = [method |-> w.name, file |-> "none", response |-> resp,
                        requests |-> <<RequestOf(w, a)>>, outcome |-> out]
          /\ http' = Append(http, RequestOf(w, a))
    /\ UNCHANGED <<tree, extra, tools, resolved, call, client>>

\* the url argument of upload_file, and what open(file_path, 'rb') finds
UploadUrls == {"http://host/server/files/upload"}
Files == {"readable", "missing", "unreadable"}

\* _Files.upload_file(url, file_path): the file is opened before anything
\* is sent
UploadFile ==
    /\ client.class = "server"
    /\ Len(http) < MaxCalls
    /\ \E url \in UploadUrls : \E file \in Files :
       \E resp \in Responses : \E out \in try_json(resp) :
          LET req  == [method |-> "POST", url |-> url]
              sent == [method |-> "upload_file", file |-> file,
                       response |-> resp, requests |-> <<req>>,
                       outcome |-> out]
              unsent == [NoResult EXCEPT !.method = "upload_file",
                                         !.file = file]
          IN  IF file = "readable"
              THEN result' = sent /\ http' = Append(http, req)
              ELSE IF file = "missing"
              THEN /\ result' = [unsent EXCEPT !.outcome = Return(None)]
                   /\ http' = http
              ELSE /\ result' = [unsent EXCEPT !.outcome =
                                     Raise("PermissionError", "open")]
                   /\ http' = http
    /\ UNCHANGED <<tree, extra, tools, resolved, call, client>>

\* the wrappers that return whether the body is b"ok"
PrintWrappers ==
    { W("printer", "startPrint", "POST", "print/start?filename=", TRUE, ""),
      W("printer", "pausePrint", "POST", "print/pause", FALSE, ""),
      W("printer", "continuePrint", "POST", "print/continue", FALSE, ""),
      W("printer", "cancelPrint", "POST", "print/cancel", FALSE, "") }

\* bool and bytes values; response.content is the body as bytes
Bool(b) == [tag |-> "bool", value |-> b]
bytes(text) == [tag |-> "bytes", repr |-> text]
content(resp) == bytes(resp.body)

\* variant: the except clause returns None
try_ok_none(resp) ==
    IF resp.kind = "refused" THEN Return(None)
    ELSE IF resp.kind = "error_status" THEN Return(None)
    ELSE Return(Bool(content(resp) = bytes("ok")))

\* try: response = requests.post(...); response.raise_for_status();
\*      return response.content == b"ok"
\* except requests.exceptions.RequestException: return False
try_ok(resp) ==
    IF resp.kind = "refused" THEN Return(Bool(FALSE))
    ELSE IF resp.kind = "error_status" THEN Return(Bool(FALSE))
    ELSE Return(Bool(content(resp) = bytes("ok")))

\* a call of startPrint, pausePrint, continuePrint or cancelPrint
CallPrintControl ==
    /\ client.class = "printer"
    /\ Len(http) < MaxCalls
    /\ \E w \in PrintWrappers : \E a \in Paths : \E resp \in Responses :
          /\ result' = [method |-> w.name, file |-> "none", response |-> resp,
                        requests |-> <<RequestOf(w, a)>>,
                        outcome |-> try_ok(resp)]
          /\ http' = Append(http, RequestOf(w, a))
    /\ UNCHANGED <<tree, extra, tools, resolved, call, client>>

NextWrappers ==
    \/ NewPrinterRequests
    \/ NewServerRequests
    \/ CallJsonWrapper
    \/ UploadFile
    \/ CallPrintControl

SpecWrappers == InitWrappers /\ [][NextWrappers]_vars

(***************************************************************************)
(* The EISY client of src/isy/eisy.py: construction and the getters        *)
(***************************************************************************)
\* a getter: what it appends to self.url and how it reads the body
G(name, path, kind) == [name |-> name, path |-> path, kind |-> kind]

\* the node and variable ids of the calls
Ids == {"7"}

EisyGetters ==
    { G("get_nodes", "nodes", "strict"),
      G("_getLocation", "time", "location"),
      G("get_scenes", "nodes/scenes", "strict"),
      G("get_programs", "programs", "default_list"),
      G("get_variables", "vars/definitions/2", "default_list"),
      G("get_weather", "climate", "default_list"),
      G("get_status", "status", "status") }
      \cup { G("get_Notes", "node/" \o id \o "/notes", "default_list") :
               id \in Ids }
      \cup { G("get_variable_value", "vars/get/2/" \o id, "default_none") :
               id \in Ids }

Getter(name) == CHOOSE g \in EisyGetters : g.name = name

\* a body: XML, JSON or neither; with the keys the getter reads, without
\* them, or with nothing where their parent should be (<DT/>, null); the
\* Lat and Long texts are numerals or not
IsNumeral(text) == text \in {"37.7749", "-122.4194", "7"}

\* the Lat and Long texts of the bodies
Coords ==
    { <<"37.7749", "-122.4194">>, <<"7", "-122.4194">>,
      <<"north", "7">>, <<"7", "west">> }
NoCoords == <<"", "">>

Doc3(format, keys, coords) ==
    [format |-> format, keys |-> keys, lat |-> coords[1], long |-> coords[2],
     numeric |-> IsNumeral(coords[1]) /\ IsNumeral(coords[2])]

Documents ==
    { Doc3("neither", "missing", NoCoords) }
      \cup { Doc3(f, k, NoCoords) : f \in {"xml", "json"},
                                    k \in {"missing", "null"} }
      \cup { Doc3(f, "present", c) : f \in {"xml", "json"}, c \in Coords }

EisyResponses ==
    { [kind |-> "refused", status |-> "",
       body |-> Doc3("neither", "missing", NoCoords)] }
      \cup { [kind |-> "answered", status |-> st, body |-> d] :
               st \in {"200", "404"}, d \in Documents }

\* float(text) of a numeral: a float, which is not the text; its repr has
\* a fraction part
float(text) ==
    [tag |-> "float", repr |-> IF text = "7" THEN "7.0" ELSE text]

\* a str value, and a tuple of two values
str(text) == [tag |-> "str", repr |-> text]
Pair(a, b) == [tag |-> "tuple", items |-> <<a, b>>]

\* what the getters return
FloatPair(doc) == Pair(float(doc.lat), float(doc.long))
Data(g) == [tag |-> "data", of |-> g.name]
EmptyList == [tag |-> "list", items |-> <<>>]

\* the handled exceptions of a try block
Except == [kind |-> "except", value |-> None]

\* the values read from the parsed body, converted as the getter does:
\* float() of a text that is no numeral raises ValueError
converted(g, doc) ==
    IF g.kind = "location"
    THEN IF doc.numeric THEN Return(FloatPair(doc))
         ELSE Raise("ValueError", "float")
    ELSE Return(Data(g))

\* try: data = xmltodict.parse(response.content); return data[..][..]
\* except (ExpatError, KeyError)
xmlBranch(g, doc) ==
    IF doc.format # "xml" THEN Except
    ELSE IF doc.keys = "missing" THEN Except
    ELSE IF doc.keys = "null"
    THEN IF g.kind = "status" THEN Return(None)
         ELSE Raise("TypeError", "NoneType")
    ELSE converted(g, doc)

\* try: data = json.loads(response.content); return data[..] or data.get(..)
\* except (JSONDecodeError, KeyError): return None
jsonBranch(g, doc) ==
    IF doc.format # "json" THEN Return(None)
    ELSE IF g.kind = "status"
    THEN IF doc.keys = "null" THEN Return(None) ELSE Return(Data(g))
    ELSE IF doc.keys = "null"
    THEN IF g.kind \in {"strict", "location"}
         THEN Raise("TypeError", "NoneType")
         ELSE Raise("AttributeError", "NoneType")
    ELSE IF doc.keys = "missing"
    THEN IF g.kind = "default_list" THEN Return(EmptyList) ELSE Return(None)
    ELSE converted(g, doc)

\* a getter: the request is made outside the try blocks
getter(g, resp) ==
    IF resp.kind = "refused" THEN Raise("ConnectionError", "requests")
    ELSE IF resp.status # "200" THEN Return(None)
    ELSE IF xmlBranch(g, resp.body) # Except THEN xmlBranch(g, resp.body)
    ELSE jsonBranch(g, resp.body)

\* the URLs an EISY is constructed with
EisyUrls == {"eisy.local", "http://eisy", "https://eisy/", "http://eisy/rest"}

\* if not url.endswith('rest/'): url += 'rest/'
withRest(url) == IF ~endswith(url, "rest/") THEN url \o "rest/" ELSE url

\* the request of a getter
Fetch(stored, name) == [method |-> "GET", url |-> stored \o Getter(name).path]

\* the getters __init__ calls, in its order
InitialGetters == <<"get_nodes", "_getLocation", "get_scenes">>

InitEisy ==
    /\ tree = [obj \in Nodes |-> {}]
    /\ extra = NoExtra
    /\ tools = [returned |-> FALSE, value |-> <<>>]
    /\ resolved = [name |-> "", outcome |-> NotCalled]
    /\ http = <<>>
    /\ call = NoCall
    /\ client = NoClient
    /\ result = NoResult

\* EISY(url, username, password), the server answering rs[i] to the i-th
\* request: a getter that raises ends the construction, and no object is
\* left; client then keeps the argument only
NewEISY ==
    /\ client = NoClient
    /\ result = NoResult
    /\ \E url \in EisyUrls :
       \E rs \in [DOMAIN InitialGetters -> EisyResponses] :
          LET stored   == withRest(withSlash(url))
              outcome(i) == getter(Getter(InitialGetters[i]), rs[i])
              raising  == { i \in DOMAIN InitialGetters :
                              outcome(i).kind = "raise" }
              last     == IF raising = {} THEN Len(InitialGetters)
                          ELSE CHOOSE i \in raising :
                                   \A j \in raising : i <= j
              sent     == [i \in 1..last |->
                              Fetch(stored, InitialGetters[i])]
          IN  IF ~(startswith(url, "http://") \/ startswith(url, "https://"))
              THEN /\ client' = [NoClient EXCEPT !.url = url]
                   /\ http' = http
                   /\ result' = [NoResult EXCEPT
                                    !.method = "__init__",
                                    !.outcome = Raise("ValueError", "EISY")]
              ELSE /\ client' = IF raising = {}
                                THEN [class |-> "eisy", url |-> url,
                                      stored |-> stored]
                                ELSE [NoClient EXCEPT !.url = url]
                   /\ http' = http \o sent
                   /\ result' = [NoResult EXCEPT
                                    !.method = "__init__",
                                    !.requests = sent,
                                    !.outcome = IF raising = {}
                                                THEN Return(None)
                                                ELSE outcome(last)]
    /\ UNCHANGED <<tree, extra, tools, resolved, call>>

\* a call of one of the getters of a constructed EISY
CallGetter ==
    /\ client.class = "eisy"
    /\ Len(http) < Len(InitialGetters) + MaxCalls
    /\ \E g \in EisyGetters : \E resp \in EisyResponses :
          /\ result' = [method |-> g.name, file |-> "none",
                        response |-> resp,
                        requests |-> <<Fetch(client.stored, g.name)>>,
                        outcome |-> getter(g, resp)]
          /\ http' = Append(http, Fetch(client.stored, g.name))
    /\ UNCHANGED <<tree, extra, tools, resolved, call, client>>

NextEisy == NewEISY \/ CallGetter

SpecEisy == InitEisy /\ [][NextEisy]_vars

(***************************************************************************)
(* Properties                                                              *)
(***************************************************************************)
\* the methods the descriptors of get_tools are derived from, in the order
\* of the catalog: the public bound methods of printer, server, server.files
PublicMethods(t, obj) ==
    LET members == SelectSeq(getmembers(t, obj),
                             LAMBDA m : ~startswith(m[1], "_"))
    IN  [i \in 1..Len(members) |-> members[i][2]]

DerivedFrom(t) ==
    PublicMethods(t, "printer") \o PublicMethods(t, "server")
        \o PublicMethods(t, "server.files")

\* the namespace objects whose prefix a name starts with
MatchingNodes(n) == { obj \in Nodes : startswith(n, Prefix(obj)) }

\* the one among them with the longest prefix
LongestMatch(n) ==
    CHOOSE obj \in MatchingNodes(n) :
        \A o \in MatchingNodes(n) : Len(Prefix(o)) <= Len(Prefix(obj))

\* a getFunc call has ended
Called == resolved.outcome.kind # "notcalled"

\* the elements of a list
Elems(seq) == { seq[i] : i \in 1..Len(seq) }

\* C1: every descriptor of the catalog get_tools returned is resolved by
\* getFunc to the bound method it was derived from, on the object it was
\* derived from
RoundTrip ==
    tools.returned =>
        LET derived == DerivedFrom(tree)
        IN  /\ Len(tools.value) = Len(derived)
            /\ \A i \in 1..Len(tools.value) :
                  getFunc(tree, tools.value[i]) = Return(derived[i])

\* a descriptor of the files object was resolved, on a tree whose server
\* carries a method whose flat name differs from it by the separator only
RoundTripWitness ==
    /\ tools.returned
    /\ "files_get_roots" \in tree["server"]
    /\ \E i \in 1..Len(tools.value) :
          /\ tools.value[i].function.name = resolved.name
          /\ resolved.outcome = Return(BoundMethod("server.files", "get_roots"))

\* C2: the flat names of a returned catalog are pairwise distinct
Uniqueness ==
    tools.returned =>
        \A i, j \in 1..Len(tools.value) :
            i # j => tools.value[i].function.name # tools.value[j].function.name

\* a catalog of a tree with the same method on two objects, and with
\* files_get_roots on the server next to get_roots on its files object
UniquenessWitness ==
    /\ tools.returned
    /\ Len(tools.value) = 3
    /\ "get_roots" \in tree["server"] \cap tree["server.files"]
    /\ "files_get_roots" \in tree["server"]

\* C3: getFunc reads the object whose prefix is the longest of those the
\* requested name starts with; a name starting with "server.files_" is
\* read on the files object, never on the server
LongestPrefixResolution ==
    (Called /\ MatchingNodes(resolved.name) # {}) =>
        /\ resolved.outcome.value.self = LongestMatch(resolved.name)
        /\ startswith(resolved.name, "server.files_")
              => resolved.outcome.value.self = "server.files"

\* "server.files_get_roots" was resolved on a tree whose server has a
\* get_roots of its own
LongestPrefixWitness ==
    /\ resolved.name = "server.files_get_roots"
    /\ "get_roots" \in tree["server"]
    /\ resolved.outcome = Return(BoundMethod("server.files", "get_roots"))

\* C4: a requested name that starts with no prefix makes getFunc raise
UnknownToolOnNoPrefix ==
    (Called /\ MatchingNodes(resolved.name) = {}) =>
        resolved.outcome.kind = "raise"

\* C5: a requested name whose remainder after the prefix is not a method
\* of the object makes getFunc raise
UnknownToolOnNoOperation ==
    (/\ Called
     /\ MatchingNodes(resolved.name) # {}
     /\ LET obj == LongestMatch(resolved.name)
        IN  SliceFrom(resolved.name, Len(Prefix(obj))) \notin tree[obj])
        => resolved.outcome.kind = "raise"

\* C6: a parameter without annotation has type "string" in the properties
\* of its descriptor
DefaultTyping ==
    tools.returned =>
        LET derived == DerivedFrom(tree)
        IN  \A i \in 1..Len(tools.value) :
            LET parameters == signature(derived[i])
                properties == tools.value[i].function.parameters.properties
            IN  \A k \in 1..Len(parameters) :
                    parameters[k].annotation = Empty
                        => properties[parameters[k].name].type = "string"

\* C7: a parameter is in required exactly when it has no default
RequiredSetCorrectness ==
    tools.returned =>
        LET derived == DerivedFrom(tree)
        IN  \A i \in 1..Len(tools.value) :
            LET parameters == signature(derived[i])
                required == tools.value[i].function.parameters.required
            IN  \A k \in 1..Len(parameters) :
                    parameters[k].name # "self" =>
                        (parameters[k].name \in Elems(required)
                            <=> parameters[k].default = Empty)

\* a catalog with a method that has required and optional parameters
RequiredSetWitness ==
    /\ tools.returned
    /\ \E i \in 1..Len(tools.value) :
          /\ tools.value[i].function.name = "server.files_create_zip"
          /\ tools.value[i].function.parameters.required = <<"dest", "files">>
          /\ "store_only" \in DOMAIN tools.value[i].function.parameters.properties

\* C10: in a returned catalog, what follows the prefix of a descriptor's
\* name does not start with "_"
NoPrivateTool ==
    tools.returned =>
        \A i \in 1..Len(tools.value) :
            LET n == tools.value[i].function.name
            IN  /\ MatchingNodes(n) # {}
                /\ \A obj \in MatchingNodes(n) :
                      ~startswith(SliceFrom(n, Len(Prefix(obj))), "_")

\* a catalog of a tree whose objects carry __init__ next to public methods
NoPrivateToolWitness ==
    /\ tools.returned
    /\ tree["printer"] = {"__init__", "get_roots"}
    /\ "__init__" \in tree["server"]
    /\ Len(tools.value) = 1

\* the documentation of a method is missing or the empty string
Undocumented(func) == DocOf(func).isNone \/ DocOf(func).text = ""

\* C11: every description of a returned catalog is non-empty, and it is the
\* sentinel when the documentation is missing or empty
NonEmptyDescription ==
    tools.returned =>
        LET derived == DerivedFrom(tree)
        IN  \A i \in 1..Len(tools.value) :
              /\ tools.value[i].function.description # ""
              /\ Undocumented(derived[i]) =>
                    tools.value[i].function.description
                        = "No description available."

\* C12: the description of a documented method is its documentation,
\* character for character
VerbatimDescription ==
    tools.returned =>
        LET derived == DerivedFrom(tree)
        IN  \A i \in 1..Len(tools.value) :
              ~Undocumented(derived[i]) =>
                  tools.value[i].function.description = DocOf(derived[i]).text

\* s holds sub somewhere
RECURSIVE Contains(_, _)
Contains(s, sub) ==
    IF Len(s) < Len(sub) THEN FALSE
    ELSE startswith(s, sub) \/ Contains(SliceFrom(s, 1), sub)

\* C12 as amended: the description of a documented method is its
\* documentation without its runs of twelve spaces (removed left to right,
\* not overlapping); documentation without such a run is copied as it is
DedentedDescription ==
    tools.returned =>
        LET derived == DerivedFrom(tree)
        IN  \A i \in 1..Len(tools.value) :
              ~Undocumented(derived[i]) =>
                  LET text == DocOf(derived[i]).text
                      description == tools.value[i].function.description
                  IN  /\ description = replace(text, "            ", "")
                      /\ ~Contains(description, "            ")
                      /\ ~Contains(text, "            ") => description = text

\* a catalog with a docstring indented by twelve spaces next to one that
\* has no such run
DedentedDescriptionWitness ==
    /\ tools.returned
    /\ \E i, j \in 1..Len(tools.value) :
          /\ tools.value[i].function.name = "server.files_create_zip"
          /\ tools.value[i].function.description
                = "Create a zip.\n\nArgs:\n    dest (str)"
          /\ tools.value[j].function.name = "server.files_get_roots"
          /\ tools.value[j].function.description = "Get roots."

\* C13: every element of a returned catalog has the wire shape, and every
\* name of required is a key of properties
WireShape ==
    tools.returned =>
        \A i \in 1..Len(tools.value) :
            LET d == tools.value[i]
                f == d.function
                p == f.parameters
            IN  /\ DOMAIN d = {"type", "function"}
                /\ d.type = "function"
                /\ DOMAIN f = {"name", "description", "parameters", "strict"}
                /\ f.strict = TRUE
                /\ DOMAIN p = {"type", "properties", "required",
                               "additionalProperties"}
                /\ p.type = "object"
                /\ p.additionalProperties = FALSE
                /\ Elems(p.required) \subseteq DOMAIN p.properties
                /\ \A k \in DOMAIN p.properties :
                      DOMAIN p.properties[k] = {"type", "description"}

\* a catalog with a descriptor without parameters and one with required and
\* optional parameters
WireShapeWitness ==
    /\ tools.returned
    /\ \E i, j \in 1..Len(tools.value) :
          /\ tools.value[i].function.parameters.required = <<>>
          /\ DOMAIN tools.value[i].function.parameters.properties = {}
          /\ tools.value[j].function.parameters.required = <<"dest", "files">>
          /\ DOMAIN tools.value[j].function.parameters.properties
                = {"dest", "files", "store_only"}

\* C17: a parameter annotated with a list type has type "string" in the
\* properties of its descriptor
ComplexTypeDegrades ==
    tools.returned =>
        LET derived == DerivedFrom(tree)
        IN  \A i \in 1..Len(tools.value) :
            LET parameters == signature(derived[i])
                properties == tools.value[i].function.parameters.properties
            IN  \A k \in 1..Len(parameters) :
                    parameters[k].annotation = ListOfStr
                        => properties[parameters[k].name].type = "string"

\* C16: no call of get_tools or getFunc changes the namespace objects or
\* their methods, and none issues an HTTP request
ReadOnlyCore ==
    [][tree' = tree /\ extra' = extra /\ http' = http]_vars

\* get_tools returned a catalog and getFunc a bound method of it, and no
\* request has been issued
ReadOnlyCoreWitness ==
    /\ tools.returned
    /\ Len(tools.value) = 3
    /\ resolved.outcome.kind = "return"
    /\ resolved.outcome.value.tag = "method"
    /\ http = <<>>

\* the public methods of a namespace object, of the three or attached
PublicNames(node) ==
    { n \in (IF node \in Nodes THEN tree[node] ELSE extra[node]) :
        ~startswith(n, "_") }

\* the number of descriptors of the returned catalog with a name
CountNamed(n) ==
    Cardinality({ i \in 1..Len(tools.value) : tools.value[i].function.name = n })

\* C14: for every namespace object reachable from the root and every public
\* method of it, the returned catalog has exactly one descriptor named by
\* the path of the object, "_" and the method name
CoversWholeTree ==
    tools.returned =>
        \A node \in Nodes \cup ExtraNodes :
            \A n \in PublicNames(node) : CountNamed(node \o "_" \o n) = 1

\* C14 as amended: that holds of printer, server and server.files, and the
\* catalog has no other descriptor: the methods of a namespace object
\* attached elsewhere are not compiled
CoversThreeObjects ==
    tools.returned =>
        /\ \A obj \in Nodes :
              \A n \in PublicNames(obj) : CountNamed(Prefix(obj) \o n) = 1
        /\ \A i \in 1..Len(tools.value) :
              \E obj \in Nodes : \E n \in PublicNames(obj) :
                  tools.value[i].function.name = Prefix(obj) \o n
        /\ \A node \in ExtraNodes :
              \A n \in PublicNames(node) : CountNamed(node \o "_" \o n) = 0

\* a catalog of a tree with a public method on the files object and one on
\* a child of the files object
CoversThreeObjectsWitness ==
    /\ tools.returned
    /\ Len(tools.value) = 1
    /\ "get_roots" \in tree["server.files"]
    /\ "get_roots" \in extra["server.files.thumbnails"]
    /\ "run_gcode" \in extra["machine"]

\* C15: the list a finished get_tools call returned is the catalog of one
\* of the states the tree was in during the call
SnapshotConsistency ==
    call.pc = "done" =>
        \E t \in call.seen : tools.value = get_tools(t)

\* the last call was a call of a wrapper that returns the parsed body
JsonWrapperCalled ==
    result.method \in { w.name : w \in JsonWrappers } \cup {"upload_file"}

\* the call issued one request, returned the body parsed when the request
\* succeeded with a JSON body, and None when the request failed
OneRequestContract ==
    /\ Len(result.requests) = 1
    /\ result.response.kind = "ok" /\ IsJson(result.response.body)
          => result.outcome = Return(json(result.response.body))
    /\ result.response.kind \in {"refused", "error_status"}
          => result.outcome = Return(None)

StoredUrlShape ==
    client.class # "none" =>
        /\ endswith(client.stored, "/" \o client.class \o "/")
        /\ startswith(client.stored, "http://")
              \/ startswith(client.stored, "https://")

\* the response is one of the failures of a getter: no connection, a
\* status other than 200, a body that is neither XML nor JSON, a body
\* without the keys, or Lat and Long texts that are no numerals
EisyFailure ==
    \/ result.response.kind = "refused"
    \/ result.response.status # "200"
    \/ result.response.body.format = "neither"
    \/ result.response.body.keys # "present"
    \/ /\ result.method = "_getLocation"
       /\ ~result.response.body.numeric

\* C20: a getter of EISY that meets a failure returns None and raises
\* nothing
GetterFailsToNone ==
    result.method \in { g.name : g \in EisyGetters } /\ EisyFailure
        => result.outcome = Return(None)

\* _getLocation met a 200 response whose XML body has the Lat and Long
\* elements
LocationRead ==
    /\ result.method = "_getLocation"
    /\ result.response.kind = "answered"
    /\ result.response.status = "200"
    /\ result.response.body.format = "xml"
    /\ result.response.body.keys = "present"

\* C21: _getLocation then returns the pair of the Lat and Long texts as they
\* are in the body, strings
LocationAsTexts ==
    LocationRead =>
        result.outcome =
            Return(Pair(str(result.response.body.lat),
                        str(result.response.body.long)))

\* C22: startPrint, pausePrint, continuePrint and cancelPrint return a
\* bool and raise nothing: True exactly when the request succeeded and the
\* body is "ok", False when the request raised a RequestException or the
\* body is another one
PrintControlBoolean ==
    result.method \in { w.name : w \in PrintWrappers } =>
        /\ result.outcome.kind = "return"
        /\ result.outcome.value \in {Bool(TRUE), Bool(FALSE)}
        /\ result.outcome.value = Bool(TRUE)
              <=> /\ result.response.kind = "ok"
                  /\ result.response.body = "ok"

\* a print was started and the server answered "ok"
PrintControlWitness ==
    /\ result.method = "startPrint"
    /\ result.response.kind = "ok"
    /\ result.outcome = Return(Bool(TRUE))
    /\ Len(http) = 1

\* the last call was a call of a wrapper of ServerRequests._Files
FilesWrapperCalled ==
    /\ client.class = "server"
    /\ result.method \in { w.name : w \in FilesWrappers }

\* the part of a URL after its scheme
AfterScheme(url) ==
    IF startswith(url, "https://") THEN SliceFrom(url, Len("https://"))
    ELSE IF startswith(url, "http://") THEN SliceFrom(url, Len("http://"))
    ELSE url

\* the number of path segments of a URL that are the word
Segments(url, word) ==
    Cardinality({ i \in 1..(Len(url) - Len(word) - 1) :
                    SubSeq(url, i, i + Len(word) + 1) = "/" \o word \o "/" })

\* C23: the URL _Files stores ends with "/files/", and every request URL it
\* builds has single "/" between its path segments and one "server" segment
FilesUrlShape ==
    FilesWrapperCalled =>
        /\ endswith(FilesUrl, "/files/")
        /\ \A i \in 1..Len(result.requests) :
              /\ ~Contains(AfterScheme(result.requests[i].url), "//")
              /\ Segments(result.requests[i].url, "server") = 1

\* the place of a descriptor's namespace in the catalog, from its name
Rank(n) ==
    IF startswith(n, "printer_") THEN 1
    ELSE IF startswith(n, "server.files_") THEN 3
    ELSE 2

\* the name of the method a descriptor was made of
MethodOf(n) ==
    IF startswith(n, "printer_") THEN SliceFrom(n, Len("printer_"))
    ELSE IF startswith(n, "server.files_")
    THEN SliceFrom(n, Len("server.files_"))
    ELSE SliceFrom(n, Len("server_"))

\* C24: in a returned catalog the printer_ descriptors come first, then the
\* server_ descriptors, then the server.files_ descriptors, and the
\* descriptors of one namespace are in ascending order of method name
CatalogOrder ==
    tools.returned =>
        \A i \in 1..Len(tools.value) : \A j \in (i + 1)..Len(tools.value) :
            LET a == tools.value[i].function.name
                b == tools.value[j].function.name
            IN  /\ Rank(a) <= Rank(b)
                /\ Rank(a) = Rank(b) => StrLess(MethodOf(a), MethodOf(b))

\* a catalog with two descriptors of the printer and one of the files
CatalogOrderWitness ==
    /\ tools.returned
    /\ Len(tools.value) = 3
    /\ tools.value[1].function.name = "printer_get_roots"
    /\ tools.value[2].function.name = "printer_run_gcode"
    /\ tools.value[3].function.name = "server.files_create_zip"

\* C25: of two get_tools calls that interleave on an unchanged tree, each
\* returns its own list, which is and stays the catalog of a sequential
\* call, whatever the other call does
ConcurrentCompiles ==
    LET catalog == get_tools(tree)
    IN  /\ \A c \in Callers :
              tools[c].returned => call.heap[tools[c].ref] = catalog
        /\ \A c \in Callers : \A d \in Callers \ {c} :
              tools[c].returned /\ tools[d].returned
                  => tools[c].ref # tools[d].ref

\* both calls have returned a catalog of two descriptors or more, and one
\* was entered while the other was running
ConcurrentCompilesWitness ==
    /\ \A c \in Callers : tools[c].returned
    /\ call.overlapped
    /\ Len(call.heap["a"]) >= 2

\* C26: a name for which getFunc returned a value is the name of a
\* descriptor of get_tools() on the same tree, so the value is no private
\* method, no url string and no namespace object
OnlyAdvertised ==
    (/\ Called
     /\ resolved.outcome.kind = "return"
     /\ resolved.outcome.value # None)
        => LET catalog == get_tools(tree)
           IN  /\ \E i \in 1..Len(catalog) :
                     catalog[i].function.name = resolved.name
               /\ resolved.outcome.value.tag = "method"
               /\ ~startswith(resolved.outcome.value.name, "_")

\* the three requests of a construction that stored the URL u
InitialFetches(u) ==
    << [method |-> "GET", url |-> u \o "nodes"],
       [method |-> "GET", url |-> u \o "time"],
       [method |-> "GET", url |-> u \o "nodes/scenes"] >>

\* C27: EISY(url, ...) raises ValueError with no request issued when url
\* starts with neither "http://" nor "https://"; otherwise it stores a URL
\* that ends with "rest/" and issues the requests for the nodes, the time
\* and the scenes, in this order
EisyInitContract ==
    result.method = "__init__" =>
        IF ~(startswith(client.url, "http://")
               \/ startswith(client.url, "https://"))
        THEN /\ result.outcome = Raise("ValueError", "EISY")
             /\ http = <<>>
        ELSE /\ client.class = "eisy"
             /\ endswith(client.stored, "rest/")
             /\ http = InitialFetches(client.stored)

====
